---- MODULE Spec2Model ----
(***************************************************************************)
(* hal-x: the debounced multi-gesture Button (src/src/button.rs) over the  *)
(* direction-tagged Switch (src/src/switch.rs), the mock Pin                *)
(* (src/src/mock/pin.rs) and the millisecond uptime counter                 *)
(* (src/src/time.rs).                                                       *)
(*                                                                          *)
(* Spec       : one Button polled by try_tick_with_resource, its accessors  *)
(*              and setters, and the uptime counter.                        *)
(* SwitchSpec : NumSwitches Switches over mock Pins, driven and read back.  *)
(***************************************************************************)
EXTENDS Integers, FiniteSets, Sequences, TLC

\* ---------------------------------------------------------------- bounds
\* The uptime counter stops at MaxTime milliseconds; at RetMaxTime in Spec,
\* which records every returned value, and at DebounceMaxTime in DebounceSpec.
MaxTime == 6
RetMaxTime == 3
DebounceMaxTime == 5
\* OverflowSpec: the uptime counter stops at OverflowMaxTime and the taps of
\* one grouping window at MaxTaps.
OverflowMaxTime == 1
MaxTaps == 257
\* Number of independent Switch instances in SwitchSpec.
NumSwitches == 3

\* Values handed to the setters (u16 milliseconds).
DebounceVals == {1}
TimeoutVals == {3}
ClickTimeoutVals == {2}

\* ------------------------------------------------------------- constants
\* Button::new defaults.
DEFAULT_DEBOUNCE == 60
DEFAULT_TIMEOUT == 500
DEFAULT_CLICK_TIMEOUT == 500
DEFAULT_STEP_TIMEOUT == 400
\* btn_counter is a u8.
U8_MODULUS == 256

VARIABLES
    button,     \* the Button struct: flags, counters, timer, configuration
    IS_NORMAL,  \* Direction::IS_NORMAL of the Button's Switch<P, D>
    COUNTER,    \* the uptime COUNTER, in milliseconds
    track,      \* which history the specification keeps: "ret", "debounce",
                \*          "hold", "clicks", "overflow", or none ("auto", "switch");
                \*          fixed by Init
    ret,        \* history ("ret"): what the last call returned
    g_run,      \* history (all but "ret"): time of the first asserted sample of the current
                \*          unbroken run of asserted samples, -1 if none
    g_gap,      \* history: milliseconds since the last successful sample (capped at 2)
    g_dense,    \* history: the current run was sampled at least once per
                \*          millisecond and debounce was not reconfigured in it
    g_holds,    \* history: hold activations in the current confirmed press (capped at 2)
    g_void,     \* history: reset_states was called during the current confirmed press
    g_pend,     \* history: btn_counter when the current press was confirmed
    g_heldrel,  \* history: the last release ended a hold and no press was confirmed since
    g_rel,      \* history: time of the last release if every sample since was
                \*          deasserted, -1 otherwise
    g_taps,     \* history: taps released in the current gesture (capped); in
                \*          OverflowSpec, taps released since btn_counter was last zeroed
    g_phase,    \* history: "clean" (gesture under way from idle, undisturbed),
                \*          "done" (its silence has elapsed), "dirty" otherwise;
                \*          "panicked" once a step has panicked (OverflowSpec)
    switches,   \* SwitchSpec: the Switch instances, [pin, normal]
    sw_last     \* SwitchSpec: the last Switch operation and what it returned

gvars == <<g_run, g_gap, g_dense, g_holds, g_void, g_pend, g_heldrel, g_rel, g_taps, g_phase>>
svars == <<switches, sw_last>>
vars == <<button, IS_NORMAL, COUNTER, track, ret, g_run, g_gap, g_dense, g_holds, g_void,
          g_pend, g_heldrel, g_rel, g_taps, g_phase, switches, sw_last>>

\* ------------------------------------------------------------ Result<T, E>
Ok(v) == [ok |-> TRUE, val |-> v]
Err == [ok |-> FALSE, val |-> "Error"]

\* --------------------------------------------------------------- mock Pin
\* A pin is in State::Enabled or State::Disabled; "Fault" is an InputPin whose
\* read fails (an embedded_hal InputPin with Error other than Infallible).
PinStates == {"Enabled", "Disabled"}
PinReads == PinStates \cup {"Fault"}

is_high(pin) == IF pin = "Fault" THEN Err ELSE Ok(pin = "Enabled")

is_low(pin) == IF pin = "Fault" THEN Err ELSE Ok(pin = "Disabled")

set_low(pin) == "Disabled"

set_high(pin) == "Enabled"

\* Pin::new.
PinNew == "Disabled"

\* ----------------------------------------------------------------- Switch
\* Switch<P, D>: the wrapped pin and Direction::IS_NORMAL of D.
SwitchNew(pin) == [pin |-> pin, normal |-> TRUE]

try_disable(normal, pin) == IF normal THEN set_low(pin) ELSE set_high(pin)

\* Mutant: try_enable drives high whatever the direction.
try_enable_ignores_direction(normal, pin) == set_high(pin)

try_enable(normal, pin) == IF normal THEN set_high(pin) ELSE set_low(pin)

try_check_is_disabled(normal, pin) == IF normal THEN is_low(pin) ELSE is_high(pin)

try_check_is_enabled(normal, pin) == IF normal THEN is_high(pin) ELSE is_low(pin)

\* ----------------------------------------------------------------- Button
ButtonNew ==
    [ flags |-> [ btn_deb |-> FALSE, hold |-> FALSE, counter |-> FALSE,
                  is_holded |-> FALSE, is_release |-> FALSE, is_press |-> FALSE,
                  step_flag |-> FALSE, one_click |-> FALSE, is_one |-> FALSE,
                  mode |-> FALSE, tick_mode |-> FALSE, no_pin |-> FALSE,
                  counter_reset |-> FALSE ],
      btn_counter |-> 0,
      last_counter |-> 0,
      last_hold_counter |-> 0,
      btn_timer |-> 0,
      btn_state |-> FALSE,
      btn_flag |-> FALSE,
      debounce |-> DEFAULT_DEBOUNCE,
      timeout |-> DEFAULT_TIMEOUT,
      click_timeout |-> DEFAULT_CLICK_TIMEOUT,
      step_timeout |-> DEFAULT_STEP_TIMEOUT ]

\* Uptime::get().as_millis() with the counter counting milliseconds.
this_mls == COUNTER

\* Mutant: the press is confirmed only after more than debounce.
PressConfirms_strict(b, t) ==
    /\ b.btn_state /\ ~b.btn_flag
    /\ b.flags.btn_deb
    /\ t - b.btn_timer > b.debounce

\* button.rs 288-301: the debounce gate.
PressConfirms(b, t) ==
    /\ b.btn_state /\ ~b.btn_flag
    /\ b.flags.btn_deb
    /\ t - b.btn_timer >= b.debounce

\* Mutant: a deasserted sample does not restart the debounce.
TickPress_keeps_btn_deb(b, t) ==
    IF b.btn_state /\ ~b.btn_flag
    THEN IF ~b.flags.btn_deb
         THEN [b EXCEPT !.flags.btn_deb = TRUE, !.btn_timer = t]
         ELSE IF PressConfirms(b, t)
              THEN [b EXCEPT !.btn_flag = TRUE,
                             !.flags.is_press = TRUE,
                             !.flags.one_click = TRUE]
              ELSE b
    ELSE b

\* Mutant: the debounce latches the time at which it will be over.
TickPress_latches_ahead(b, t) ==
    IF b.btn_state /\ ~b.btn_flag
    THEN IF ~b.flags.btn_deb
         THEN [b EXCEPT !.flags.btn_deb = TRUE, !.btn_timer = t + b.debounce]
         ELSE IF PressConfirms(b, t)
              THEN [b EXCEPT !.btn_flag = TRUE,
                             !.flags.is_press = TRUE,
                             !.flags.one_click = TRUE]
              ELSE b
    ELSE [b EXCEPT !.flags.btn_deb = FALSE]

TickPress(b, t) ==
    IF b.btn_state /\ ~b.btn_flag
    THEN IF ~b.flags.btn_deb
         THEN [b EXCEPT !.flags.btn_deb = TRUE, !.btn_timer = t]
         ELSE IF PressConfirms(b, t)
              THEN [b EXCEPT !.btn_flag = TRUE,
                             !.flags.is_press = TRUE,
                             !.flags.one_click = TRUE]
              ELSE b
    ELSE [b EXCEPT !.flags.btn_deb = FALSE]

\* button.rs 304-321: the release transition.
Releases(b) == ~b.btn_state /\ b.btn_flag

\* Mutant: a release sets the pending count to 1 instead of incrementing it.
TickRelease_sets_one(b, t) ==
    IF Releases(b)
    THEN LET b1 == [b EXCEPT !.btn_flag = FALSE,
                             !.btn_counter = IF ~b.flags.hold THEN 1 ELSE @,
                             !.flags.hold = FALSE,
                             !.flags.is_release = TRUE,
                             !.btn_timer = t]
             b2 == IF b1.flags.step_flag
                   THEN [b1 EXCEPT !.last_counter = 0,
                                   !.btn_counter = 0,
                                   !.flags.step_flag = FALSE]
                   ELSE b1
         IN  IF b2.flags.one_click
             THEN [b2 EXCEPT !.flags.one_click = FALSE, !.flags.is_one = TRUE]
             ELSE b2
    ELSE b

\* Mutant: a release does not re-latch btn_timer.
TickRelease_keeps_timer(b, t) ==
    IF Releases(b)
    THEN LET b1 == [b EXCEPT !.btn_flag = FALSE,
                             !.btn_counter = IF ~b.flags.hold
                                             THEN (@ + 1) % U8_MODULUS
                                             ELSE @,
                             !.flags.hold = FALSE,
                             !.flags.is_release = TRUE]
             b2 == IF b1.flags.step_flag
                   THEN [b1 EXCEPT !.last_counter = 0,
                                   !.btn_counter = 0,
                                   !.flags.step_flag = FALSE]
                   ELSE b1
         IN  IF b2.flags.one_click
             THEN [b2 EXCEPT !.flags.one_click = FALSE, !.flags.is_one = TRUE]
             ELSE b2
    ELSE b

TickRelease(b, t) ==
    IF Releases(b)
    THEN LET b1 == [b EXCEPT !.btn_flag = FALSE,
                             !.btn_counter = IF ~b.flags.hold
                                             THEN (@ + 1) % U8_MODULUS
                                             ELSE @,
                             !.flags.hold = FALSE,
                             !.flags.is_release = TRUE,
                             !.btn_timer = t]
             b2 == IF b1.flags.step_flag
                   THEN [b1 EXCEPT !.last_counter = 0,
                                   !.btn_counter = 0,
                                   !.flags.step_flag = FALSE]
                   ELSE b1
         IN  IF b2.flags.one_click
             THEN [b2 EXCEPT !.flags.one_click = FALSE, !.flags.is_one = TRUE]
             ELSE b2
    ELSE b

\* button.rs 324-337: hold activation.
HoldStarts(b, t) ==
    /\ b.btn_flag
    /\ b.btn_state
    /\ t - b.btn_timer >= b.timeout
    /\ ~b.flags.hold

\* Mutant: the hold does not cancel the tap in flight.
TickHold_keeps_one_click(b, t) ==
    IF HoldStarts(b, t)
    THEN [b EXCEPT !.flags.hold = TRUE,
                   !.last_hold_counter = b.btn_counter,
                   !.flags.is_holded = TRUE,
                   !.flags.step_flag = TRUE,
                   !.btn_timer = t]
    ELSE b

\* Mutant: the hold remembers the finalized count instead of the pending one.
TickHold_last_counter(b, t) ==
    IF HoldStarts(b, t)
    THEN [b EXCEPT !.flags.hold = TRUE,
                   !.last_hold_counter = b.last_counter,
                   !.flags.is_holded = TRUE,
                   !.flags.step_flag = TRUE,
                   !.flags.one_click = FALSE,
                   !.btn_timer = t]
    ELSE b

\* Mutant: the hold activation does not set its guard.
TickHold_no_guard(b, t) ==
    IF HoldStarts(b, t)
    THEN [b EXCEPT !.last_hold_counter = b.btn_counter,
                   !.flags.is_holded = TRUE,
                   !.flags.step_flag = TRUE,
                   !.flags.one_click = FALSE,
                   !.btn_timer = t]
    ELSE b

TickHold(b, t) ==
    IF HoldStarts(b, t)
    THEN [b EXCEPT !.flags.hold = TRUE,
                   !.last_hold_counter = b.btn_counter,
                   !.flags.is_holded = TRUE,
                   !.flags.step_flag = TRUE,
                   !.flags.one_click = FALSE,
                   !.btn_timer = t]
    ELSE b

\* Mutant: the click-group timeout fires whatever the sampled level.
Finalizes_any_level(b, t) ==
    /\ t - b.btn_timer >= b.click_timeout
    /\ b.btn_counter # 0

\* button.rs 340-348: click-group finalization.
Finalizes(b, t) ==
    /\ t - b.btn_timer >= b.click_timeout
    /\ b.btn_counter # 0
    /\ ~b.btn_state

TickClicks(b, t) ==
    IF Finalizes(b, t)
    THEN [b EXCEPT !.last_counter = b.btn_counter,
                   !.btn_counter = 0,
                   !.flags.counter = TRUE]
    ELSE b

\* button.rs 351-355: consumer acknowledgment.
TickCounterReset(b) ==
    IF b.flags.counter_reset
    THEN [b EXCEPT !.last_counter = 0,
                   !.flags.counter = FALSE,
                   !.flags.counter_reset = FALSE]
    ELSE b

\* The stages of one successful step, each on the result of the one before.
Sampled(b, level) == [b EXCEPT !.btn_state = level]
AfterPress(b, level, t) == TickPress(Sampled(b, level), t)
AfterRelease(b, level, t) == TickRelease(AfterPress(b, level, t), t)
AfterHold(b, level, t) == TickHold(AfterRelease(b, level, t), t)
AfterClicks(b, level, t) == TickClicks(AfterHold(b, level, t), t)
AfterTick(b, level, t) == TickCounterReset(AfterClicks(b, level, t))

\* What the step did, for the history variables and the properties.
Confirmed(b, level, t) == PressConfirms(Sampled(b, level), t)
Released(b, level, t) == Releases(AfterPress(b, level, t))
HoldStarted(b, level, t) == HoldStarts(AfterRelease(b, level, t), t)
Finalized(b, level, t) == Finalizes(AfterHold(b, level, t), t)

\* The constructed state in every field a gesture touches.
Idle(b) ==
    /\ b.flags = ButtonNew.flags
    /\ b.btn_counter = 0 /\ b.last_counter = 0 /\ b.last_hold_counter = 0
    /\ ~b.btn_state /\ ~b.btn_flag

Min(a, b) == IF a < b THEN a ELSE b

\* ------------------------------------------------------------- accessors
\* Each returns [self |-> the Button afterwards, ret |-> the value returned].
\* Mutant: is_press reads the flag without clearing it.
is_press_peek(b) == [self |-> b, ret |-> b.flags.is_press]

is_press(b) ==
    IF b.flags.is_press
    THEN [self |-> [b EXCEPT !.flags.is_press = FALSE], ret |-> TRUE]
    ELSE [self |-> b, ret |-> FALSE]

is_release(b) ==
    IF b.flags.is_release
    THEN [self |-> [b EXCEPT !.flags.is_release = FALSE], ret |-> TRUE]
    ELSE [self |-> b, ret |-> FALSE]

is_click(b) ==
    IF b.flags.is_one
    THEN [self |-> [b EXCEPT !.flags.is_one = FALSE], ret |-> TRUE]
    ELSE [self |-> b, ret |-> FALSE]

is_holded(b) ==
    IF b.flags.is_holded
    THEN [self |-> [b EXCEPT !.flags.is_holded = FALSE], ret |-> TRUE]
    ELSE [self |-> b, ret |-> FALSE]

is_hold(b) == [self |-> b, ret |-> b.flags.step_flag]

state(b) == [self |-> b, ret |-> b.btn_state]

is_single(b) ==
    IF b.flags.counter /\ b.last_counter = 1
    THEN [self |-> [b EXCEPT !.flags.counter_reset = TRUE], ret |-> TRUE]
    ELSE [self |-> b, ret |-> FALSE]

is_double(b) ==
    IF b.flags.counter /\ b.last_counter = 2
    THEN [self |-> [b EXCEPT !.flags.counter_reset = TRUE], ret |-> TRUE]
    ELSE [self |-> b, ret |-> FALSE]

is_triple(b) ==
    IF b.flags.counter /\ b.last_counter = 3
    THEN [self |-> [b EXCEPT !.flags.counter_reset = TRUE], ret |-> TRUE]
    ELSE [self |-> b, ret |-> FALSE]

has_clicks(b) ==
    IF b.flags.counter
    THEN [self |-> [b EXCEPT !.flags.counter_reset = TRUE], ret |-> TRUE]
    ELSE [self |-> b, ret |-> FALSE]

get_clicks(b) ==
    [self |-> [b EXCEPT !.flags.counter_reset = TRUE], ret |-> b.last_counter]

get_hold_clicks(b) == [self |-> b, ret |-> b.last_hold_counter]

set_debounce(b, debounce) == [b EXCEPT !.debounce = debounce]

set_timeout(b, new_timeout) == [b EXCEPT !.timeout = new_timeout]

set_click_timeout(b, new_timeout) == [b EXCEPT !.click_timeout = new_timeout]

set_tick_mode(b, tick_mode) == [b EXCEPT !.flags.tick_mode = tick_mode]

reset_states(b) ==
    [b EXCEPT !.flags.is_press = FALSE,
              !.flags.is_release = FALSE,
              !.flags.is_one = FALSE,
              !.flags.is_holded = FALSE,
              !.flags.step_flag = FALSE,
              !.flags.counter = FALSE,
              !.last_hold_counter = 0,
              !.last_counter = 0]

\* Mutant: a failed read is taken as a deasserted sample before the error
\* is returned.
try_tick_with_resource_clobbers(b, normal, pin, t) ==
    LET r == try_check_is_disabled(normal, pin)
    IN  IF r.ok
        THEN [self |-> AfterTick(b, r.val, t), ret |-> Ok("unit")]
        ELSE [self |-> [b EXCEPT !.btn_state = FALSE], ret |-> Err]

\* try_tick_with_resource: the sample, then the five stages; a failed read
\* returns before anything is assigned.
try_tick_with_resource(b, normal, pin, t) ==
    LET r == try_check_is_disabled(normal, pin)
    IN  IF r.ok
        THEN [self |-> AfterTick(b, r.val, t), ret |-> Ok("unit")]
        ELSE [self |-> b, ret |-> Err]

\* ------------------------------------------------------- returned values
\* The last call and what it returned: val is the bool returned (is_ok of a
\* Result, TRUE for ()), n the u32 returned (0 for the calls that return none).
Ret(op, v) == [op |-> op, val |-> v, n |-> 0]
RetU32(op, v) == [op |-> op, val |-> TRUE, n |-> v]

\* ---------------------------------------------------------------- Init
\* A freshly constructed Button of either direction at uptime 0, and
\* NumSwitches fresh Normal switches over fresh mock pins.
InitWith(tr) ==
    /\ button = ButtonNew
    /\ IS_NORMAL \in BOOLEAN
    /\ COUNTER = 0
    /\ track = tr
    /\ ret = Ret("new", TRUE)
    /\ g_run = -1
    /\ g_gap = 0
    /\ g_dense = TRUE
    /\ g_holds = 0
    /\ g_void = FALSE
    /\ g_pend = 0
    /\ g_heldrel = FALSE
    /\ g_rel = -1
    /\ g_taps = 0
    /\ g_phase = "clean"
    /\ switches = [i \in 1..NumSwitches |-> SwitchNew(PinNew)]
    /\ sw_last = [op |-> "new", sw |-> 1, val |-> TRUE, was |-> FALSE]

Init == InitWith("ret")

\* -------------------------------------------------------------- actions
Keeps(tr) == track = tr
Gesture == track \in {"debounce", "hold", "clicks"}

\* time.rs timer_interruption_callback: one more millisecond of uptime.
timer_interruption_callback ==
    /\ COUNTER < (IF Keeps("ret") THEN RetMaxTime
                  ELSE IF Keeps("debounce") THEN DebounceMaxTime
                  ELSE IF Keeps("overflow") THEN OverflowMaxTime ELSE MaxTime)
    /\ COUNTER' = COUNTER + 1
    /\ g_gap' = IF Keeps("debounce") THEN Min(g_gap + 1, 2) ELSE g_gap
    /\ UNCHANGED <<button, IS_NORMAL, track, ret, g_run, g_dense, g_holds, g_void, g_pend,
                   g_heldrel, g_rel, g_taps, g_phase, switches, sw_last>>

\* The history of a successful step that sampled `level` at time t from b.
NextPhase(b, level, t, rel, taps) ==
    CASE g_phase = "clean" ->
            IF HoldStarted(b, level, t) THEN "dirty"
            ELSE IF ~level /\ g_run # -1 /\ ~Released(b, level, t) THEN "dirty"
            ELSE IF ~level /\ rel # -1 /\ taps >= 1
                    /\ t - rel >= AfterTick(b, level, t).click_timeout THEN "done"
            ELSE "clean"
      [] g_phase = "done" -> IF level THEN "dirty" ELSE "done"
      [] OTHER -> IF Idle(AfterTick(b, level, t)) THEN "clean" ELSE "dirty"

DebounceHistory(b, level, t) ==
    /\ g_gap' = 0
    /\ g_dense' = IF level /\ g_run # -1 THEN g_dense /\ g_gap <= 1 ELSE TRUE

HoldHistory(b, level, t) ==
    /\ g_holds' = IF Released(b, level, t) THEN 0
                  ELSE IF HoldStarted(b, level, t)
                       THEN (IF Confirmed(b, level, t) THEN 1 ELSE Min(g_holds + 1, 2))
                       ELSE (IF Confirmed(b, level, t) THEN 0 ELSE g_holds)
    /\ g_void' = IF Confirmed(b, level, t) \/ Released(b, level, t) THEN FALSE ELSE g_void
    /\ g_pend' = IF Confirmed(b, level, t) THEN b.btn_counter ELSE g_pend
    /\ g_heldrel' = IF Released(b, level, t) THEN (g_holds >= 1 /\ ~g_void) ELSE g_heldrel

ClicksHistory(b, level, t) ==
    LET rel == IF level THEN -1 ELSE IF Released(b, level, t) THEN t ELSE g_rel
        taps == IF g_phase = "clean" /\ Released(b, level, t) THEN g_taps + 1 ELSE g_taps
        phase == NextPhase(b, level, t, rel, taps)
    IN  /\ g_rel' = rel
        /\ g_phase' = phase
        /\ g_taps' = IF phase = "dirty" \/ (g_phase = "dirty" /\ phase = "clean") THEN 0 ELSE taps

\* button.rs 307: the u8 increment of a release that did not end a hold.
Increments(b) == Releases(b) /\ ~b.flags.hold

IncrementOverflows(b) == Increments(b) /\ b.btn_counter + 1 >= U8_MODULUS

\* The taps released since btn_counter was last zeroed (312-316, 345-346).
TapsAfterRelease(b, level, t) ==
    IF ~Released(b, level, t) THEN g_taps
    ELSE IF AfterRelease(b, level, t).flags.step_flag # AfterPress(b, level, t).flags.step_flag
         THEN 0
         ELSE IF Increments(AfterPress(b, level, t)) THEN g_taps + 1 ELSE g_taps

OverflowHistory(b, level, t) ==
    /\ g_taps' = IF Finalized(b, level, t) THEN 0 ELSE TapsAfterRelease(b, level, t)
    /\ UNCHANGED <<g_rel, g_phase>>

TickHistory(b, level, t) ==
    /\ g_run' = IF ~Gesture THEN g_run
                ELSE IF level THEN (IF g_run = -1 THEN t ELSE g_run) ELSE -1
    /\ IF Keeps("debounce") THEN DebounceHistory(b, level, t) ELSE UNCHANGED <<g_gap, g_dense>>
    /\ IF Keeps("hold") THEN HoldHistory(b, level, t)
                        ELSE UNCHANGED <<g_holds, g_void, g_pend, g_heldrel>>
    /\ IF Keeps("clicks") THEN ClicksHistory(b, level, t)
       ELSE IF Keeps("overflow") THEN OverflowHistory(b, level, t)
       ELSE UNCHANGED <<g_rel, g_taps, g_phase>>

Returns(r) == ret' = IF Keeps("ret") THEN r ELSE ret

\* One poll of the Button: the pin reads `pin`, the uptime reads COUNTER.
Tick(pin) ==
    LET out == try_tick_with_resource(button, IS_NORMAL, pin, this_mls)
        r == try_check_is_disabled(IS_NORMAL, pin)
    IN  /\ button' = out.self
        /\ Returns(Ret("try_tick_with_resource", out.ret.ok))
        /\ IF r.ok
           THEN TickHistory(button, r.val, this_mls)
           ELSE UNCHANGED gvars
        /\ UNCHANGED <<IS_NORMAL, COUNTER, track, switches, sw_last>>

\* An accessor that takes no part in click-group acknowledgment.
Plain(out, r) ==
    /\ button' = out.self
    /\ Returns(r)
    /\ UNCHANGED <<IS_NORMAL, COUNTER, track, gvars, switches, sw_last>>

IsPress == Plain(is_press(button), Ret("is_press", is_press(button).ret))
IsRelease == Plain(is_release(button), Ret("is_release", is_release(button).ret))
IsClick == Plain(is_click(button), Ret("is_click", is_click(button).ret))
IsHolded == Plain(is_holded(button), Ret("is_holded", is_holded(button).ret))
IsHold == Plain(is_hold(button), Ret("is_hold", is_hold(button).ret))
State == Plain(state(button), Ret("state", state(button).ret))
GetHoldClicks == Plain(get_hold_clicks(button), RetU32("get_hold_clicks", get_hold_clicks(button).ret))

\* An acknowledging accessor: the gesture under way is no longer undisturbed.
Disturbs ==
    /\ g_phase' = IF Keeps("clicks") THEN "dirty" ELSE g_phase
    /\ g_taps' = IF Keeps("clicks") THEN 0 ELSE g_taps

Acking(out, r) ==
    /\ button' = out.self
    /\ Returns(r)
    /\ Disturbs
    /\ UNCHANGED <<IS_NORMAL, COUNTER, track, g_run, g_gap, g_dense, g_holds, g_void, g_pend,
                   g_heldrel, g_rel, switches, sw_last>>

IsSingle == Acking(is_single(button), Ret("is_single", is_single(button).ret))
IsDouble == Acking(is_double(button), Ret("is_double", is_double(button).ret))
IsTriple == Acking(is_triple(button), Ret("is_triple", is_triple(button).ret))
HasClicks == Acking(has_clicks(button), Ret("has_clicks", has_clicks(button).ret))
GetClicks == Acking(get_clicks(button), RetU32("get_clicks", get_clicks(button).ret))

ResetStates ==
    /\ button' = reset_states(button)
    /\ Returns(Ret("reset_states", TRUE))
    /\ Disturbs
    /\ g_void' = IF Keeps("hold") THEN (g_void \/ button.btn_flag) ELSE g_void
    /\ UNCHANGED <<IS_NORMAL, COUNTER, track, g_run, g_gap, g_dense, g_holds, g_pend,
                   g_heldrel, g_rel, switches, sw_last>>

SetDebounce(v) ==
    /\ button' = set_debounce(button, v)
    /\ Returns(Ret("set_debounce", TRUE))
    /\ g_dense' = IF Keeps("debounce") THEN (g_run = -1) ELSE g_dense
    /\ UNCHANGED <<IS_NORMAL, COUNTER, track, g_run, g_gap, g_holds, g_void, g_pend,
                   g_heldrel, g_rel, g_taps, g_phase, switches, sw_last>>

SetTimeout(v) ==
    /\ button' = set_timeout(button, v)
    /\ Returns(Ret("set_timeout", TRUE))
    /\ UNCHANGED <<IS_NORMAL, COUNTER, track, gvars, switches, sw_last>>

SetClickTimeout(v) ==
    /\ button' = set_click_timeout(button, v)
    /\ Returns(Ret("set_click_timeout", TRUE))
    /\ UNCHANGED <<IS_NORMAL, COUNTER, track, gvars, switches, sw_last>>

Next ==
    \/ timer_interruption_callback
    \/ \E pin \in PinReads : Tick(pin)
    \/ IsPress
    \/ IsRelease
    \/ IsClick
    \/ IsHolded
    \/ IsHold
    \/ State
    \/ IsSingle
    \/ IsDouble
    \/ IsTriple
    \/ HasClicks
    \/ GetClicks
    \/ GetHoldClicks
    \/ ResetStates
    \/ \E v \in DebounceVals : SetDebounce(v)
    \/ \E v \in TimeoutVals : SetTimeout(v)
    \/ \E v \in ClickTimeoutVals : SetClickTimeout(v)

\* The Button with the returned values recorded.
Spec == Init /\ [][Next]_vars

\* The Button with the history of the debounce, of the hold, of the click group.
DebounceInit == InitWith("debounce")
DebounceSpec == DebounceInit /\ [][Next]_vars

HoldInit == InitWith("hold")
HoldSpec == HoldInit /\ [][Next]_vars

ClicksInit == InitWith("clicks")
ClicksSpec == ClicksInit /\ [][Next]_vars

\* -------------------------------------------------------------- AutoSpec
\* The Button with the auto-tick toggle among its operations.
SetTickMode(v) ==
    /\ button' = set_tick_mode(button, v)
    /\ Returns(Ret("set_tick_mode", TRUE))
    /\ UNCHANGED <<IS_NORMAL, COUNTER, track, gvars, switches, sw_last>>

AutoNext ==
    \/ Next
    \/ \E v \in BOOLEAN : SetTickMode(v)

AutoInit == InitWith("auto")
AutoSpec == AutoInit /\ [][AutoNext]_vars

\* ---------------------------------------------------------- OverflowSpec
\* A step of a build with overflow checks whose increment of btn_counter
\* (button.rs 307) overflows: it panics there, after the assignments of 283,
\* 300 and 305, and nothing runs afterwards.
TickPanics(pin) ==
    LET r == try_check_is_disabled(IS_NORMAL, pin)
        b == AfterPress(button, r.val, this_mls)
    IN  /\ r.ok
        /\ IncrementOverflows(b)
        /\ button' = [b EXCEPT !.btn_flag = FALSE]
        /\ g_phase' = "panicked"
        /\ UNCHANGED <<IS_NORMAL, COUNTER, track, ret, g_run, g_gap, g_dense, g_holds, g_void,
                       g_pend, g_heldrel, g_rel, g_taps, switches, sw_last>>

\* One grouping window of taps as fast as the Button takes them (debounce
\* 0), up to its finalization (click_timeout 1). Where the increment
\* overflows the step wraps (Tick) or panics (TickPanics), as the build has it.
Running == g_phase # "panicked" /\ ~button.flags.counter

OverflowNext ==
    \/ Running /\ timer_interruption_callback
    \/ \E pin \in PinStates : Running /\ g_taps < MaxTaps /\ Tick(pin)
    \/ \E pin \in PinStates : Running /\ TickPanics(pin)
    \/ Running /\ SetDebounce(0)
    \/ Running /\ SetClickTimeout(1)

OverflowInit == InitWith("overflow")
OverflowSpec == OverflowInit /\ [][OverflowNext]_vars

\* ------------------------------------------------------------ SwitchSpec
\* A Switch operation on switch i: the switch afterwards, the bool it returned
\* (TRUE for Ok(()) and for a conversion), and try_check_is_enabled before it.
SwitchStep(i, op, after, val) ==
    /\ switches' = [switches EXCEPT ![i] = after]
    /\ sw_last' = [op |-> op, sw |-> i, val |-> val,
                   was |-> try_check_is_enabled(switches[i].normal, switches[i].pin).val]
    /\ UNCHANGED <<button, IS_NORMAL, COUNTER, track, ret, gvars>>

SwEnable(i) ==
    LET s == switches[i]
    IN  SwitchStep(i, "try_enable", [s EXCEPT !.pin = try_enable(s.normal, s.pin)], TRUE)

SwDisable(i) ==
    LET s == switches[i]
    IN  SwitchStep(i, "try_disable", [s EXCEPT !.pin = try_disable(s.normal, s.pin)], TRUE)

SwCheckIsEnabled(i) ==
    LET s == switches[i]
    IN  SwitchStep(i, "try_check_is_enabled", s, try_check_is_enabled(s.normal, s.pin).val)

SwCheckIsDisabled(i) ==
    LET s == switches[i]
    IN  SwitchStep(i, "try_check_is_disabled", s, try_check_is_disabled(s.normal, s.pin).val)

\* From<Switch<P, Normal>> for Switch<P, Reverse>, and back: the same pin
\* under the other direction.
into_revers(s) == [pin |-> s.pin, normal |-> FALSE]

into_normal(s) == [pin |-> s.pin, normal |-> TRUE]

SwIntoRevers(i) ==
    /\ switches[i].normal
    /\ SwitchStep(i, "into_revers", into_revers(switches[i]), TRUE)

SwIntoNormal(i) ==
    /\ ~switches[i].normal
    /\ SwitchStep(i, "into_normal", into_normal(switches[i]), TRUE)

SwitchNext ==
    \E i \in 1..NumSwitches :
        \/ SwEnable(i)
        \/ SwDisable(i)
        \/ SwCheckIsEnabled(i)
        \/ SwCheckIsDisabled(i)
        \/ SwIntoRevers(i)
        \/ SwIntoNormal(i)

SwitchInit == InitWith("switch")
SwitchSpec == SwitchInit /\ [][SwitchNext]_vars

\* =============================================================== claims
\* A successful step that sampled the level as asserted.
SampledAsserted(pin) == Tick(pin) /\ try_check_is_disabled(IS_NORMAL, pin).val

\* C1 (DebounceSpec). Debounce rejection: the press flag is raised, and the
\* press confirmed, only in a step whose sample belongs to an unbroken run of
\* asserted samples that began at least debounce milliseconds earlier; a
\* deasserted sample ends the run, so a run shorter than debounce followed by
\* a deasserted sample raises nothing.
C1_DebounceRejection ==
    [][((~button.btn_flag /\ button'.btn_flag)
          \/ (~button.flags.is_press /\ button'.flags.is_press))
       => (/\ g_run' # -1
           /\ COUNTER' - g_run' >= button'.debounce
           /\ \E pin \in PinStates : SampledAsserted(pin))]_vars

C1_Witness ==
    /\ button.btn_flag /\ button.flags.is_press
    /\ g_run > 0
    /\ COUNTER - g_run >= button.debounce

\* C2 (DebounceSpec). Debounce confirmation: with debounce >= 1 and a run of
\* asserted samples taken at least once per millisecond from its first sample
\* at g_run, the press is confirmed and its flag raised in exactly the step
\* whose time is the first with now - g_run >= debounce: the time of this
\* sample reaches the threshold and that of the sample before it did not.
C2_DebounceConfirmation ==
    [][\A pin \in PinStates :
          (SampledAsserted(pin) /\ g_dense' /\ button.debounce >= 1)
          => ((~button.btn_flag /\ button'.btn_flag /\ button'.flags.is_press)
              <=> (/\ g_run # -1
                   /\ COUNTER - g_run >= button.debounce
                   /\ (COUNTER - g_gap) - g_run < button.debounce))]_vars

C2_Witness ==
    /\ button.btn_flag /\ button.flags.is_press
    /\ g_dense /\ g_gap = 0 /\ g_run # -1
    /\ button.debounce >= 1
    /\ COUNTER - g_run = button.debounce

\* C3 (ClicksSpec). Click grouping: from the idle state, with no acknowledging
\* accessor, reset or hold during the gesture, g_taps taps (every asserted run
\* a confirmed press released before a hold starts) followed by deasserted
\* samples up to click_timeout after the last release leave get_clicks()
\* returning the number of taps, and is_single, is_double, is_triple answering
\* true for that number alone.
C3_ClickGrouping ==
    g_phase = "done" =>
        /\ g_taps >= 1
        /\ get_clicks(button).ret = g_taps
        /\ has_clicks(button).ret
        /\ is_single(button).ret <=> (g_taps = 1)
        /\ is_double(button).ret <=> (g_taps = 2)
        /\ is_triple(button).ret <=> (g_taps = 3)

C3_Witness ==
    /\ g_phase = "done" /\ g_taps = 3
    /\ is_triple(button).ret /\ ~is_single(button).ret /\ ~is_double(button).ret

\* C4 (HoldSpec). Hold preempts tap: a confirmed press sampled asserted once
\* timeout has elapsed since the press began has had its hold activated, and
\* activated once only; the release that ends it raises is_release but not
\* is_one and does not increment btn_counter; with no reset_states since the
\* press was confirmed it leaves btn_counter 0, and from that release until
\* the next release btn_counter stays 0 and no step finalizes a click group.
C4_HoldPreemptsTap ==
    /\ [](g_holds <= 1)
    /\ [](g_heldrel => button.btn_counter = 0)
    /\ [][\A pin \in PinStates : Tick(pin) =>
            /\ (button'.btn_state /\ button'.btn_flag
                    /\ COUNTER - g_run' >= button.timeout)
               => (g_holds' = 1 /\ button'.flags.hold)
            /\ (g_holds' = 1 /\ (g_holds = 0 \/ ~button.btn_flag))
               => (button'.flags.is_holded /\ button'.flags.step_flag)
            /\ (button.btn_flag /\ ~button'.btn_flag /\ g_holds >= 1)
               => (/\ button'.btn_counter \in {0, button.btn_counter}
                   /\ button'.flags.is_one = button.flags.is_one
                   /\ button'.flags.is_release)
            /\ (button.btn_flag /\ ~button'.btn_flag /\ g_holds >= 1 /\ ~g_void)
               => (button'.btn_counter = 0 /\ g_heldrel')
            /\ (g_heldrel /\ g_heldrel')
               => (/\ button'.flags.counter => button.flags.counter
                   /\ button'.last_counter \in {button.last_counter, 0})]_vars

C4_Witness ==
    /\ g_heldrel /\ ~button.btn_flag
    /\ button.flags.is_holded /\ button.flags.is_release /\ ~button.flags.is_one
    /\ button.last_hold_counter = 1
    /\ button.btn_counter = 0

\* C4 (HoldSpec), as claimed: all of the above, and the release that ends a
\* hold leaves btn_counter 0 whatever was called during the press.
C4_HoldReleaseLeavesNoPending ==
    /\ C4_HoldPreemptsTap
    /\ [][\A pin \in PinStates :
            (Tick(pin) /\ button.btn_flag /\ ~button'.btn_flag /\ g_holds >= 1)
            => button'.btn_counter = 0]_vars

\* C5 (HoldSpec). Hold click memory: the step that activates a hold leaves
\* get_hold_clicks() returning the btn_counter the press was confirmed with;
\* get_hold_clicks changes nothing; and the value changes in no step other
\* than a hold activation or reset_states.
C5_HoldClickMemory ==
    /\ [](get_hold_clicks(button).self = button)
    /\ [][/\ (~button.flags.hold /\ button'.flags.hold)
             => get_hold_clicks(button').ret = g_pend'
          /\ (get_hold_clicks(button').ret # get_hold_clicks(button).ret)
             => \/ ~button.flags.hold /\ button'.flags.hold
                \/ ResetStates]_vars

C5_Witness ==
    /\ get_hold_clicks(button).ret = 2 /\ g_pend = 2
    /\ g_heldrel /\ ~button.btn_flag

\* C6 (Spec). Read-and-clear accessors: no step clears is_press, is_release,
\* is_one or is_holded once raised; each of is_press(), is_release(),
\* is_click() and is_holded() returns its flag, clears that flag and nothing
\* else, and would return false if called again at once; and a raised flag
\* falls only in its own accessor or in reset_states.
OnlyClears(flag) == button' = [button EXCEPT !.flags[flag] = FALSE]

C6_ReadAndClear ==
    [][/\ (\E pin \in PinReads : Tick(pin))
          => \A flag \in {"is_press", "is_release", "is_one", "is_holded"} :
                button.flags[flag] => button'.flags[flag]
       /\ IsPress => (/\ ret'.val = button.flags.is_press
                      /\ OnlyClears("is_press")
                      /\ ~is_press(button').ret)
       /\ IsRelease => (/\ ret'.val = button.flags.is_release
                        /\ OnlyClears("is_release")
                        /\ ~is_release(button').ret)
       /\ IsClick => (/\ ret'.val = button.flags.is_one
                      /\ OnlyClears("is_one")
                      /\ ~is_click(button').ret)
       /\ IsHolded => (/\ ret'.val = button.flags.is_holded
                       /\ OnlyClears("is_holded")
                       /\ ~is_holded(button').ret)
       /\ (button.flags.is_press /\ ~button'.flags.is_press) => (IsPress \/ ResetStates)
       /\ (button.flags.is_release /\ ~button'.flags.is_release) => (IsRelease \/ ResetStates)
       /\ (button.flags.is_one /\ ~button'.flags.is_one) => (IsClick \/ ResetStates)
       /\ (button.flags.is_holded /\ ~button'.flags.is_holded) => (IsHolded \/ ResetStates)]_vars

C6_Witness ==
    /\ ret = Ret("is_press", TRUE)
    /\ ~button.flags.is_press
    /\ button.flags.is_release /\ button.flags.is_one

\* C7 (Spec). Fail-atomic step: a step whose pin read fails returns the error
\* and leaves every field of the Button as it was.
C7_FailAtomic ==
    [][\A pin \in PinReads :
          (Tick(pin) /\ ~try_check_is_disabled(IS_NORMAL, pin).ok)
          => (button' = button /\ ret' = Ret("try_tick_with_resource", FALSE))]_vars

C7_Witness ==
    /\ ret = Ret("try_tick_with_resource", FALSE)
    /\ button.btn_flag /\ button.btn_state /\ button.flags.hold

\* C8 (Spec). Sampling polarity, as claimed: every successful step leaves
\* btn_state equal to try_check_is_enabled of the pin under the Button's
\* direction (a high pin pressed under Normal, a low pin under Reverse).
C8_SamplesAsserted ==
    [][\A pin \in PinStates :
          Tick(pin) => button'.btn_state = try_check_is_enabled(IS_NORMAL, pin).val]_vars

\* C9 (SwitchSpec). Polarity adapter consistency over the mock Pin: after
\* try_enable the pin is high under Normal and low under Reverse and the
\* switch reads enabled and not disabled; after try_disable the opposite; the
\* two reads are always each other's negation and return what they read; and
\* converting the direction over the same pin inverts try_check_is_enabled.
SwEnabled(s) == try_check_is_enabled(s.normal, s.pin)
SwDisabled(s) == try_check_is_disabled(s.normal, s.pin)

C9_PolarityConsistency ==
    /\ \A i \in 1..NumSwitches :
          /\ SwEnabled(switches[i]).ok /\ SwDisabled(switches[i]).ok
          /\ SwEnabled(switches[i]).val = ~SwDisabled(switches[i]).val
    /\ LET s == switches[sw_last.sw]
       IN  /\ sw_last.op = "try_enable"
              => (/\ s.pin = IF s.normal THEN "Enabled" ELSE "Disabled"
                  /\ SwEnabled(s).val /\ ~SwDisabled(s).val)
           /\ sw_last.op = "try_disable"
              => (/\ s.pin = IF s.normal THEN "Disabled" ELSE "Enabled"
                  /\ ~SwEnabled(s).val /\ SwDisabled(s).val)
           /\ sw_last.op = "try_check_is_enabled" => sw_last.val = SwEnabled(s).val
           /\ sw_last.op = "try_check_is_disabled" => sw_last.val = ~SwEnabled(s).val
           /\ sw_last.op = "into_revers" => (~s.normal /\ SwEnabled(s).val = ~sw_last.was)
           /\ sw_last.op = "into_normal" => (s.normal /\ SwEnabled(s).val = ~sw_last.was)

C9_Witness ==
    /\ sw_last.op = "try_enable"
    /\ ~switches[sw_last.sw].normal
    /\ switches[sw_last.sw].pin = "Disabled"
    /\ \E j \in 1..NumSwitches : switches[j].normal /\ switches[j].pin = "Enabled"

\* C10 (Spec). A finalized group is sticky until acknowledged, as claimed: a
\* step that finalizes a group of k ends with counter set and
\* last_counter = k; and from a state with counter set and last_counter >= 1
\* every step other than reset_states and a step with an acknowledgment
\* requested keeps both, unless it finalizes a newer group.
C10_StickyUntilAcknowledged ==
    [][/\ \A pin \in PinStates :
            LET level == try_check_is_disabled(IS_NORMAL, pin).val
            IN  (Tick(pin) /\ Finalized(button, level, COUNTER))
                => (/\ button'.flags.counter
                    /\ button'.last_counter = AfterHold(button, level, COUNTER).btn_counter)
       /\ (/\ button.flags.counter /\ button.last_counter >= 1
           /\ ~ResetStates
           /\ ~(button.flags.counter_reset /\ \E pin \in PinStates : Tick(pin)))
          => (/\ button'.flags.counter
              /\ \/ button'.last_counter = button.last_counter
                 \/ \E pin \in PinStates :
                       /\ Tick(pin)
                       /\ Finalized(button, try_check_is_disabled(IS_NORMAL, pin).val, COUNTER)
                       /\ button'.last_counter >= 1)]_vars

\* C11 (Spec). reset_states returns the Button to the idle state, as claimed:
\* after it is_press, is_release, is_one, is_holded, step_flag and counter are
\* false and last_counter, last_hold_counter and btn_counter are 0; and with
\* every sample deasserted from then on no step finalizes a group.
C11_ResetToIdle ==
    [][/\ ResetStates
          => (/\ ~button'.flags.is_press /\ ~button'.flags.is_release
              /\ ~button'.flags.is_one /\ ~button'.flags.is_holded
              /\ ~button'.flags.step_flag /\ ~button'.flags.counter
              /\ button'.last_counter = 0
              /\ button'.last_hold_counter = 0
              /\ button'.btn_counter = 0)
       /\ (ret.op = "reset_states" /\ ~button.btn_flag)
          => \A pin \in PinStates :
                (Tick(pin) /\ ~try_check_is_disabled(IS_NORMAL, pin).val)
                => ~button'.flags.counter]_vars

\* C12 (AutoSpec). Auto-tick, as claimed: with tick_mode set, each accessor
\* leaves the Button as one step (of some pin level) followed by the read
\* would; with tick_mode clear, an accessor does only its read.
AccessorAfter(b) ==
    {is_press(b).self, is_release(b).self, is_click(b).self, is_holded(b).self,
     is_hold(b).self, state(b).self, is_single(b).self, is_double(b).self,
     is_triple(b).self, has_clicks(b).self, get_hold_clicks(b).self}

AccessorCall ==
    \/ IsPress \/ IsRelease \/ IsClick \/ IsHolded \/ IsHold \/ State
    \/ IsSingle \/ IsDouble \/ IsTriple \/ HasClicks \/ GetHoldClicks

C12_AutoTick ==
    [][AccessorCall
       => IF button.flags.tick_mode
          THEN \E pin \in PinStates :
                  button' \in AccessorAfter(
                      try_tick_with_resource(button, IS_NORMAL, pin, this_mls).self)
          ELSE button' \in AccessorAfter(button)]_vars

ScenarioLevel(t) == t <= 80

\* The steps at times lo..hi in order, from b; the run goes on only while
\* btn_timer is not ahead of the clock (this_mls - btn_timer is unsigned).
RECURSIVE ScenarioRun(_, _, _)
ScenarioRun(b, lo, hi) ==
    IF lo = hi
    THEN AfterTick(b, ScenarioLevel(lo), lo)
    ELSE LET mid == (lo + hi) \div 2
             half == ScenarioRun(b, lo, mid)
         IN  IF half.btn_timer <= mid
             THEN ScenarioRun(half, mid + 1, hi)
             ELSE half

ScenarioAt(t) == ScenarioRun(ButtonNew, 0, t)

\* What the run of the default configuration shows at 59, 60, 80, 81, 580, 581.
ScenarioDefault ==
    /\ ~ScenarioAt(59).flags.is_press /\ ~ScenarioAt(59).btn_flag
    /\ ScenarioAt(60).flags.is_press /\ ScenarioAt(60).btn_flag
    /\ ~ScenarioAt(80).flags.is_release /\ ~ScenarioAt(80).flags.is_one
    /\ ScenarioAt(81).flags.is_release /\ ScenarioAt(81).flags.is_one
    /\ ScenarioAt(81).btn_counter = 1
    /\ ScenarioAt(580).btn_counter = 1 /\ ~ScenarioAt(580).flags.counter
    /\ get_clicks(ScenarioAt(580)).ret = 0
    /\ get_clicks(ScenarioAt(581)).ret = 1
    /\ ScenarioAt(581).flags.counter /\ ScenarioAt(581).btn_counter = 0

\* C14 (ClicksSpec). The click-group window is anchored at the release: after
\* a release at g_rel, with every later sample deasserted and no
\* acknowledgment requested, a step with now - g_rel < click_timeout keeps
\* btn_counter, counter and last_counter as they are, and the first step with
\* now - g_rel >= click_timeout moves btn_counter to last_counter, zeroes it
\* and sets counter. In the default configuration with asserted samples at
\* 0..80 and deasserted from 81: press at 60 and not before, release and
\* single click at 81, btn_counter 1 up to 580, get_clicks() 1 from 581.
C14_WindowAnchoredAtRelease ==
    /\ [](ScenarioDefault)
    /\ [][\A pin \in PinStates :
            (/\ Tick(pin)
             /\ ~try_check_is_disabled(IS_NORMAL, pin).val
             /\ g_rel # -1
             /\ button.btn_counter >= 1
             /\ ~button.flags.counter_reset)
            => IF COUNTER - g_rel < button.click_timeout
               THEN /\ button'.btn_counter = button.btn_counter
                    /\ button'.flags.counter = button.flags.counter
                    /\ button'.last_counter = button.last_counter
               ELSE /\ button'.last_counter = button.btn_counter
                    /\ button'.flags.counter
                    /\ button'.btn_counter = 0]_vars

C14_Witness ==
    /\ g_rel >= 1
    /\ COUNTER - g_rel = button.click_timeout
    /\ button.flags.counter /\ button.last_counter = 2
    /\ button.btn_counter = 0

\* C15 (AutoSpec). btn_counter is zeroed in the hold-start step and in the
\* finalizing step only, as claimed: the step in which a hold starts ends with
\* btn_counter 0, and a non-zero btn_counter becomes 0 in no other step or
\* call than a step that starts a hold or finalizes a group.
C15_PendingZeroedAtHoldStart ==
    [][/\ \A pin \in PinStates :
            (Tick(pin) /\ HoldStarted(button, try_check_is_disabled(IS_NORMAL, pin).val, COUNTER))
            => button'.btn_counter = 0
       /\ (button.btn_counter # 0 /\ button'.btn_counter = 0)
          => \E pin \in PinStates :
                LET level == try_check_is_disabled(IS_NORMAL, pin).val
                IN  /\ Tick(pin)
                    /\ \/ HoldStarted(button, level, COUNTER)
                       \/ Finalized(button, level, COUNTER)]_vars

\* C16 (HoldSpec). A hold starts at most once per physical press: between the
\* step that confirms a press and the step that releases it the hold branch
\* runs at most once; when it runs the guard was clear and it sets the guard,
\* raises is_holded and latches btn_timer; and the guard falls only in a step
\* that releases the press.
C16_HoldOncePerPress ==
    /\ [](g_holds <= 1 /\ (button.flags.hold => button.btn_flag))
    /\ [][/\ \A pin \in PinStates :
                (Tick(pin) /\ HoldStarted(button, try_check_is_disabled(IS_NORMAL, pin).val, COUNTER))
                => (/\ ~button.flags.hold /\ button'.flags.hold
                    /\ button'.flags.is_holded
                    /\ button'.btn_timer = COUNTER)
          /\ (button.flags.hold /\ ~button'.flags.hold)
             => \E pin \in PinStates :
                   /\ Tick(pin)
                   /\ Released(button, try_check_is_disabled(IS_NORMAL, pin).val, COUNTER)
          /\ (~button.flags.hold /\ button'.flags.hold)
             => \E pin \in PinStates :
                   /\ Tick(pin)
                   /\ HoldStarted(button, try_check_is_disabled(IS_NORMAL, pin).val, COUNTER)]_vars

C16_Witness ==
    /\ g_holds = 1 /\ button.flags.hold /\ button.btn_flag /\ button.btn_state
    /\ COUNTER - button.btn_timer >= button.timeout
    /\ COUNTER - g_run >= button.timeout + button.timeout

\* C17 (HoldSpec). step_flag is a level, as claimed: is_hold() changes
\* nothing; step_flag implies btn_flag and an asserted btn_state; and at the
\* end of every step is_hold() is true exactly when a hold has started for
\* the current confirmed press and the press has not been released.
C17_HoldingNowIsLevel ==
    /\ [](is_hold(button).self = button)
    /\ [](button.flags.step_flag => (button.btn_flag /\ button.btn_state))
    /\ [][\A pin \in PinStates :
             Tick(pin) => (is_hold(button').ret <=> (g_holds' >= 1 /\ button'.btn_flag))]_vars

\* C18 (DebounceSpec). Click-group finalization happens only while released:
\* counter rises, or last_counter takes a new non-zero value, only in a step
\* that finalizes a group; that step sampled deasserted, had no debounce in
\* progress, and sets counter and last_counter >= 1 together; and a step
\* whose sample is asserted finalizes nothing, whatever the elapsed time.
C18_FinalizesOnlyReleased ==
    [][/\ ((~button.flags.counter /\ button'.flags.counter)
             \/ (button'.last_counter # button.last_counter /\ button'.last_counter # 0))
          => \E pin \in PinStates :
                LET level == try_check_is_disabled(IS_NORMAL, pin).val
                IN  /\ Tick(pin)
                    /\ Finalized(button, level, COUNTER)
       /\ \A pin \in PinStates :
             LET level == try_check_is_disabled(IS_NORMAL, pin).val
                 before == AfterHold(button, level, COUNTER)
                 after == AfterClicks(button, level, COUNTER)
             IN  Tick(pin) =>
                    /\ Finalized(button, level, COUNTER)
                       => (/\ ~level
                           /\ ~before.flags.btn_deb
                           /\ after.flags.counter
                           /\ after.last_counter = before.btn_counter
                           /\ after.last_counter >= 1)
                    /\ ~Finalized(button, level, COUNTER)
                       => (/\ after.flags.counter = button.flags.counter
                           /\ after.last_counter \in {button.last_counter, 0})
                    /\ level
                       => (/\ ~Finalized(button, level, COUNTER)
                           /\ button'.flags.counter => button.flags.counter
                           /\ button'.last_counter \in {button.last_counter, 0})]_vars

C18_Witness ==
    /\ g_gap = 0 /\ g_run # -1 /\ button.btn_state
    /\ button.btn_counter >= 1
    /\ COUNTER - button.btn_timer >= button.click_timeout
    /\ ~button.flags.counter

\* C19 (AutoSpec). Acknowledgment protocol, as claimed: is_single, is_double,
\* is_triple, has_clicks and get_clicks leave counter and last_counter as
\* they are and would return the same again; a successful step with a request
\* pending ends with last_counter 0, counter false and the request cleared;
\* and a successful step with no request pending leaves a finalized group
\* (counter set, last_counter >= 1) finalized.
C19_AcknowledgmentProtocol ==
    [][/\ (IsSingle \/ IsDouble \/ IsTriple \/ HasClicks \/ GetClicks)
          => (/\ button'.flags.counter = button.flags.counter
              /\ button'.last_counter = button.last_counter
              /\ is_single(button').ret = is_single(button).ret
              /\ is_double(button').ret = is_double(button).ret
              /\ is_triple(button').ret = is_triple(button).ret
              /\ has_clicks(button').ret = has_clicks(button).ret
              /\ get_clicks(button').ret = get_clicks(button).ret)
       /\ \A pin \in PinStates :
             Tick(pin) =>
                /\ button.flags.counter_reset
                   => (/\ button'.last_counter = 0
                       /\ ~button'.flags.counter
                       /\ ~button'.flags.counter_reset)
                /\ (~button.flags.counter_reset
                        /\ button.flags.counter /\ button.last_counter >= 1)
                   => (button'.flags.counter /\ button'.last_counter >= 1)]_vars

\* C20 (ClicksSpec). The single-click flag is raised only for a tap that no
\* further tap follows in its click group, as claimed: in a gesture of two or
\* more taps from idle, is_one is not raised.
C20_SingleClickOnlyForLoneTap ==
    (g_phase \in {"clean", "done"} /\ g_taps >= 2) => ~button.flags.is_one

\* C22 (AutoSpec). A raised counter flag comes with a non-zero last_counter,
\* as claimed: in every reachable state counter implies last_counter >= 1,
\* and whenever has_clicks() would return true get_clicks() would return a
\* non-zero count.
C22_ReadyImpliesCount ==
    /\ button.flags.counter => button.last_counter >= 1
    /\ has_clicks(button).ret => get_clicks(button).ret # 0

\* C21 (OverflowSpec). The pending click counter never overflows, as claimed:
\* no step panics; every release that counts a tap leaves btn_counter one
\* greater, below 2^8 or not; btn_counter is the number of taps released in
\* the grouping window; and the group finalized afterwards has last_counter
\* equal to that number.
C21_PendingCounterNeverOverflows ==
    [][\A pin \in PinStates :
          LET level == try_check_is_disabled(IS_NORMAL, pin).val
              pressed == AfterPress(button, level, COUNTER)
          IN  /\ ~TickPanics(pin)
              /\ Tick(pin) =>
                    /\ Increments(pressed)
                       => (/\ ~IncrementOverflows(pressed)
                           /\ AfterRelease(button, level, COUNTER).btn_counter
                                  = pressed.btn_counter + 1)
                    /\ AfterRelease(button, level, COUNTER).btn_counter
                          = TapsAfterRelease(button, level, COUNTER)
                    /\ Finalized(button, level, COUNTER)
                       => AfterClicks(button, level, COUNTER).last_counter
                             = TapsAfterRelease(button, level, COUNTER)]_vars

====
